---- MODULE Spec2Model ----
(***************************************************************************)
(* Model of o3de_setup_script.py: the O3DECameraSetup scaffold run.        *)
(*                                                                         *)
(* main() constructs O3DECameraSetup and calls run_full_setup, which is    *)
(* straight-line code: five setup_* methods (host editor calls) followed   *)
(* by three artifact producers (file system calls), all inside one         *)
(* try/except.  The straight-line code is kept as the instruction          *)
(* sequence Program; pc is the position in it.  The host editor and the    *)
(* file system are external: the outcome of each call site is chosen the   *)
(* first time the site is reached and is remembered in `behaviour`, so a   *)
(* second run meets the same host and the same file system.                *)
(***************************************************************************)
EXTENDS Integers, Sequences, FiniteSets, TLC

\* ---------------------------------------------------------------- bounds
\* number of call sites per run that may answer with something else than
\* plain success
MaxFaults == 2
\* number of invocations of main()
MaxRuns == 2

\* ------------------------------------------------------- program literals
InvalidEntityId == 0

I(step, op, arg, comp) == [step |-> step, op |-> op, arg |-> arg, comp |-> comp]

setup_camera_entity ==
    << I("camera", "create", "VehicleCamera", ""),
       I("camera", "add", "Camera", "Camera"),
       I("camera", "set", "Field of View", "Camera"),
       I("camera", "set", "Near Clip Distance", "Camera"),
       I("camera", "set", "Far Clip Distance", "Camera"),
       I("camera", "tm", "SetWorldTM", "") >>

setup_vehicle_entity ==
    << I("vehicle", "create", "PlayerVehicle", ""),
       I("vehicle", "add", "Mesh", "Mesh"),
       I("vehicle", "add", "PhysX Rigid Body", "PhysX Rigid Body"),
       I("vehicle", "set", "Initial linear velocity", "PhysX Rigid Body"),
       I("vehicle", "set", "Mass", "PhysX Rigid Body"),
       I("vehicle", "add", "PhysX Collider", "PhysX Collider"),
       I("vehicle", "tm", "SetWorldTM", "") >>

setup_game_manager ==
    << I("manager", "create", "GameManager", ""),
       I("manager", "add", "Script Canvas", "Script Canvas") >>

setup_ground_plane ==
    << I("ground", "create", "GroundPlane", ""),
       I("ground", "add", "Mesh", "Mesh"),
       I("ground", "add", "PhysX Static Rigid Body", "PhysX Static Rigid Body"),
       I("ground", "add", "PhysX Collider", "PhysX Collider"),
       I("ground", "tm", "SetLocalTM", "") >>

setup_lighting ==
    << I("light", "create", "DirectionalLight", ""),
       I("light", "add", "Directional Light", "Directional Light"),
       I("light", "tm", "SetLocalTM", "") >>

create_input_bindings ==
    << I("bindings", "makedirs", "Config/Input", ""),
       I("bindings", "write", "Config/Input/vehicle_camera.inputbindings", "") >>

create_component_source_files ==
    << I("sources", "makedirs", "Gem/Code/Source/Components", ""),
       I("sources", "write", "Gem/Code/Source/Components/VehicleCombatCameraComponent.h", ""),
       I("sources", "write", "Gem/Code/Source/Components/VehicleCombatCameraComponent.cpp", "") >>

create_readme ==
    << I("readme", "write", "CAMERA_SETUP_README.md", "") >>

\* a reordering of the try block: vehicle is set up before camera
ProgramVehicleFirst ==
    setup_vehicle_entity \o setup_camera_entity \o setup_game_manager
        \o setup_ground_plane \o setup_lighting
        \o create_input_bindings \o create_component_source_files \o create_readme

\* the body of the try block of run_full_setup, calls inlined
Program ==
    setup_camera_entity \o setup_vehicle_entity \o setup_game_manager
        \o setup_ground_plane \o setup_lighting
        \o create_input_bindings \o create_component_source_files \o create_readme

ProgLen == Len(Program)

Files == { Program[i].arg : i \in { j \in 1..ProgLen : Program[j].op = "write" } }

\* ------------------------------------------------------- file contents
bindings ==
    << [name |-> "camera_cycle", event_generator |-> "keyboard_key_c", event_name |-> "camera_cycle"],
       [name |-> "camera_look_back", event_generator |-> "gamepad_button_r1", event_name |-> "camera_look_back"],
       [name |-> "camera_menu", event_generator |-> "keyboard_key_f1", event_name |-> "camera_menu"],
       [name |-> "photo_mode", event_generator |-> "keyboard_key_f6", event_name |-> "photo_mode"],
       [name |-> "vehicle_forward", event_generator |-> "keyboard_key_w", event_name |-> "vehicle_forward"],
       [name |-> "vehicle_backward", event_generator |-> "keyboard_key_s", event_name |-> "vehicle_backward"],
       [name |-> "vehicle_left", event_generator |-> "keyboard_key_a", event_name |-> "vehicle_left"],
       [name |-> "vehicle_right", event_generator |-> "keyboard_key_d", event_name |-> "vehicle_right"] >>

\* json.dump of the list of binding objects: one token per key and value,
\* objects in list order, keys in insertion order
RECURSIVE JsonDumpList(_)
JsonDumpList(bs) ==
    IF bs = << >> THEN << >>
    ELSE << "{", "name", bs[1].name,
            "event_generator", bs[1].event_generator,
            "event_name", bs[1].event_name, "}" >> \o JsonDumpList(Tail(bs))

\* json.dump({"version": 1, "bindings": [...]}, f, indent=4)
JsonDump(bs) == << "{", "version", "1", "bindings", "[" >> \o JsonDumpList(bs) \o << "]", "}" >>

Content(file) ==
    CASE file = "Config/Input/vehicle_camera.inputbindings" -> JsonDump(bindings)
      [] file = "Gem/Code/Source/Components/VehicleCombatCameraComponent.h" -> << "header_content" >>
      [] file = "Gem/Code/Source/Components/VehicleCombatCameraComponent.cpp" -> << "cpp_content" >>
      [] OTHER -> << "readme_content" >>

\* ---------------------------------------------------------------- state
VARIABLES
    phase,             \* "idle" | "run" | "returned" | "crashed": where main() is
    pc,                \* position in Program of the next call of the try block
    result,            \* "none" | "True" | "False": what main() returned
    runNo,             \* number of invocations of main() so far
    created_entities,  \* self.created_entities: sequence of <<role, handle>> in insertion order
    entities,          \* host: display names of the entities, handle = position
    components,        \* host: set of <<handle, component type>> attached
    properties,        \* host: set of <<handle, component type, property path>> set
    transforms,        \* host: set of <<handle, "SetWorldTM" | "SetLocalTM">> applied
    dirs,              \* file system: directories that exist
    fs,                \* file system: file -> [exists, data]
    behaviour,         \* call site -> outcome of the host / file system there, "unset" until reached
    calls,             \* the calls made by the current run, in order, with their outcomes
    prev               \* result, calls and files at the end of the previous run

vars == << phase, pc, result, runNo, created_entities, entities, components,
           properties, transforms, dirs, fs, behaviour, calls, prev >>

\* ---------------------------------------------------------------- helpers
Roles == { "camera", "vehicle", "manager", "ground", "light" }

NoFile == [exists |-> FALSE, data |-> << >>]

\* the call site of the constructor's GetGameFolder request
CtorSite == 0

Sites == 0..ProgLen

\* answers the host / the file system can give to an operation
Outcomes(op) ==
    CASE op = "ctor"     -> { "ok", "raise" }
      [] op = "create"   -> { "ok", "invalid", "raise" }
      [] op = "add"      -> { "ok", "notfound", "raise" }
      [] op = "set"      -> { "ok", "rejected", "raise" }
      [] op = "tm"       -> { "ok", "raise" }
      [] op = "makedirs" -> { "ok", "raise" }
      [] OTHER           -> { "ok", "openfail", "writefail" }

Faults == Cardinality({ s \in Sites : behaviour[s] \notin { "unset", "ok" } })

\* the external world answers a site the way it answered it before
Allowed(site, o) ==
    IF behaviour[site] # "unset" THEN o = behaviour[site]
    ELSE o = "ok" \/ Faults < MaxFaults

\* d[key] = value on a dict kept in insertion order
DictSet(d, key, value) ==
    IF \E i \in 1..Len(d) : d[i][1] = key
    THEN [ i \in 1..Len(d) |-> IF d[i][1] = key THEN << key, value >> ELSE d[i] ]
    ELSE Append(d, << key, value >>)

DictGet(d, key) == (CHOOSE i \in 1..Len(d) : d[i][1] = key) 

DictKeys(d) == [ i \in 1..Len(d) |-> d[i][1] ]

\* first instruction after position p that is not a set_component_property
RECURSIVE SkipSets(_)
SkipSets(p) ==
    IF p <= ProgLen /\ Program[p].op = "set" THEN SkipSets(p + 1) ELSE p

\* first instruction after position p that belongs to another method
RECURSIVE StepEnd(_)
StepEnd(p) ==
    IF p < ProgLen /\ Program[p + 1].step = Program[p].step THEN StepEnd(p + 1) ELSE p + 1

Entry(p, o) ==
    [at |-> p, step |-> Program[p].step, op |-> Program[p].op,
     arg |-> Program[p].arg, comp |-> Program[p].comp, out |-> o]

\* the local variable camera_id / vehicle_id / ... of the running setup_* method
CurrentEntity == created_entities[DictGet(created_entities, Program[pc].step)][2]

\* ---------------------------------------------------------------- init
\* files left in the project by earlier work: an input-binding file and a guide
PreExisting == { "Config/Input/vehicle_camera.inputbindings", "CAMERA_SETUP_README.md" }

Init ==
    /\ phase = "idle"
    /\ pc = 1
    /\ result = "none"
    /\ runNo = 0
    /\ created_entities = << >>
    /\ entities = << >>
    /\ components = {}
    /\ properties = {}
    /\ transforms = {}
    /\ fs = [ f \in Files |-> IF f \in PreExisting
                             THEN [exists |-> TRUE, data |-> << "old" >>] ELSE NoFile ]
    /\ dirs = { "Config/Input" }
    /\ behaviour = [ s \in Sites |-> "unset" ]
    /\ calls = << >>
    /\ prev = [valid |-> FALSE, result |-> "none", calls |-> << >>, fs |-> fs]

\* ---------------------------------------------------------------- actions
\* except Exception of run_full_setup: return False; main returns it
Except ==
    /\ phase' = "returned"
    /\ result' = "False"
    /\ pc' = pc

\* main(): setup = O3DECameraSetup().  The constructor asks the host for the
\* game folder outside of any try block.
Main ==
    /\ phase # "run"
    /\ runNo < MaxRuns
    /\ runNo' = runNo + 1
    /\ prev' = IF runNo >= 1
               THEN [valid |-> TRUE, result |-> result, calls |-> calls, fs |-> fs]
               ELSE prev
    /\ created_entities' = << >>
    /\ calls' = << >>
    /\ pc' = 1
    /\ result' = "none"
    /\ \E o \in Outcomes("ctor") :
         /\ Allowed(CtorSite, o)
         /\ behaviour' = [behaviour EXCEPT ![CtorSite] = o]
         /\ phase' = IF o = "ok" THEN "run" ELSE "crashed"
    /\ UNCHANGED << entities, components, properties, transforms, dirs, fs >>

AtOp(op) == phase = "run" /\ pc <= ProgLen /\ Program[pc].op = op

\* create_entity(name), then self.created_entities[role] = id
CreateEntity ==
    /\ AtOp("create")
    /\ \E o \in Outcomes("create") :
         /\ Allowed(pc, o)
         /\ behaviour' = [behaviour EXCEPT ![pc] = o]
         /\ calls' = Append(calls, Entry(pc, o))
         /\ CASE o = "ok" ->
                  /\ entities' = Append(entities, Program[pc].arg)
                  /\ created_entities' =
                       DictSet(created_entities, Program[pc].step, Len(entities) + 1)
                  /\ pc' = pc + 1
                  /\ UNCHANGED << phase, result >>
              [] o = "invalid" ->
                  /\ created_entities' =
                       DictSet(created_entities, Program[pc].step, InvalidEntityId)
                  /\ pc' = pc + 1
                  /\ UNCHANGED << entities, phase, result >>
              [] OTHER ->
                  /\ Except
                  /\ UNCHANGED << entities, created_entities >>
    /\ UNCHANGED << runNo, components, properties, transforms, dirs, fs, prev >>

\* add_component returns (a handle or None) on every answer but an exception
\* variant: an unresolved type name is raised as an error
add_component_raises_on_notfound(o) == o \notin { "raise", "notfound" }

add_component_returns(o) == o # "raise"

\* the host attaches nothing to an entity that does not exist
AddOutcome(o, h) == IF o = "ok" /\ h = InvalidEntityId THEN "empty" ELSE o

\* x = self.add_component(id, type); if x: ...set properties...
AddComponent ==
    /\ AtOp("add")
    /\ \E o \in Outcomes("add") :
         /\ Allowed(pc, o)
         /\ behaviour' = [behaviour EXCEPT ![pc] = o]
         /\ LET eff == AddOutcome(o, CurrentEntity) IN
            /\ calls' = Append(calls, Entry(pc, eff))
            /\ IF add_component_returns(eff)
               THEN /\ components' = IF eff = "ok"
                                     THEN components \cup { << CurrentEntity, Program[pc].arg >> }
                                     ELSE components
                    /\ pc' = IF eff = "ok" THEN pc + 1 ELSE SkipSets(pc + 1)
                    /\ UNCHANGED << phase, result >>
               ELSE /\ Except
                    /\ UNCHANGED components
    /\ UNCHANGED << runNo, created_entities, entities, properties, transforms, dirs, fs, prev >>

\* variant: the property calls are chained with `and`
SetPropertyNextShortCircuit(p, o) == IF o = "rejected" THEN SkipSets(p + 1) ELSE p + 1

\* the statement after a set_component_property call
SetPropertyNext(p, o) == p + 1

\* self.set_component_property(id, component, path, value)
SetComponentProperty ==
    /\ AtOp("set")
    /\ \E o \in Outcomes("set") :
         /\ Allowed(pc, o)
         /\ behaviour' = [behaviour EXCEPT ![pc] = o]
         /\ calls' = Append(calls, Entry(pc, o))
         /\ IF o = "raise"
            THEN /\ Except
                 /\ UNCHANGED properties
            ELSE /\ properties' = IF o = "ok"
                                  THEN properties \cup
                                         { << CurrentEntity, Program[pc].comp, Program[pc].arg >> }
                                  ELSE properties
                 /\ pc' = SetPropertyNext(pc, o)
                 /\ UNCHANGED << phase, result >>
    /\ UNCHANGED << runNo, created_entities, entities, components, transforms, dirs, fs, prev >>

\* editor.EditorTransformComponentRequestBus(bus.Event, 'SetWorldTM' | 'SetLocalTM', id, transform)
SetTransform ==
    /\ AtOp("tm")
    /\ \E o \in Outcomes("tm") :
         /\ Allowed(pc, o)
         /\ behaviour' = [behaviour EXCEPT ![pc] = o]
         /\ calls' = Append(calls, Entry(pc, o))
         /\ IF o = "raise"
            THEN /\ Except
                 /\ UNCHANGED transforms
            ELSE /\ transforms' = IF CurrentEntity # InvalidEntityId
                                  THEN transforms \cup { << CurrentEntity, Program[pc].arg >> }
                                  ELSE transforms
                 /\ pc' = pc + 1
                 /\ UNCHANGED << phase, result >>
    /\ UNCHANGED << runNo, created_entities, entities, components, properties, dirs, fs, prev >>

\* os.makedirs(folder, exist_ok=True), which stands before the producer's try
MakeDirs ==
    /\ AtOp("makedirs")
    /\ \E o \in Outcomes("makedirs") :
         /\ Allowed(pc, o)
         /\ behaviour' = [behaviour EXCEPT ![pc] = o]
         /\ calls' = Append(calls, Entry(pc, o))
         /\ IF o = "raise"
            THEN /\ Except
                 /\ UNCHANGED dirs
            ELSE /\ dirs' = dirs \cup { Program[pc].arg }
                 /\ pc' = pc + 1
                 /\ UNCHANGED << phase, result >>
    /\ UNCHANGED << runNo, created_entities, entities, components, properties,
                    transforms, fs, prev >>

\* variant: the file is opened with mode 'a'
OpenA(file, content) == [exists |-> TRUE, data |-> file.data \o content]

\* open(path, 'w') followed by a complete write of content
OpenW(file, content) == [exists |-> TRUE, data |-> content]

\* variant: the handler removes the files its producer had written
ExceptWriteRollback(files, step) ==
    [ f \in Files |->
        IF \E i \in 1..ProgLen : Program[i].step = step /\ Program[i].op = "write" /\ Program[i].arg = f
        THEN NoFile ELSE files[f] ]

\* the producer's `except Exception as e: print(...); return False`
ExceptWrite(files, step) == files

\* with open(path, 'w') as f: write(content)   inside the producer's try
WriteFile ==
    /\ AtOp("write")
    /\ \E o \in Outcomes("write") :
         /\ Allowed(pc, o)
         /\ behaviour' = [behaviour EXCEPT ![pc] = o]
         /\ calls' = Append(calls, Entry(pc, o))
         /\ LET f == Program[pc].arg IN
            CASE o = "ok" ->
                  /\ fs' = [fs EXCEPT ![f] = OpenW(fs[f], Content(f))]
                  /\ pc' = pc + 1
              [] o = "openfail" ->
                  /\ fs' = ExceptWrite(fs, Program[pc].step)
                  /\ pc' = StepEnd(pc)
              [] OTHER ->
                  \* open truncated the file, the write raised
                  /\ fs' = ExceptWrite([fs EXCEPT ![f] = [exists |-> TRUE, data |-> << >>]],
                                       Program[pc].step)
                  /\ pc' = StepEnd(pc)
    /\ UNCHANGED << phase, result, runNo, created_entities, entities, components,
                    properties, transforms, dirs, prev >>

\* what each producer returned in the run logged as log: False iff a write of it failed
ProducerFailed(log, step) ==
    \E i \in 1..Len(log) : log[i].step = step /\ log[i].op = "write" /\ log[i].out # "ok"

\* variant: the aggregate is the conjunction of the producers' results
run_full_setup_strict(log) ==
    IF \E st \in { "bindings", "sources", "readme" } : ProducerFailed(log, st)
    THEN "False" ELSE "True"

\* the value run_full_setup returns at the end of its try block
run_full_setup_result(log) == "True"

\* the summary prints and `return True`; main returns success
Return ==
    /\ phase = "run"
    /\ pc = ProgLen + 1
    /\ result' = run_full_setup_result(calls)
    /\ phase' = "returned"
    /\ UNCHANGED << pc, runNo, created_entities, entities, components, properties,
                    transforms, dirs, fs, behaviour, calls, prev >>

Next ==
    \/ Main
    \/ CreateEntity
    \/ AddComponent
    \/ SetComponentProperty
    \/ SetTransform
    \/ MakeDirs
    \/ WriteFile
    \/ Return

Spec == Init /\ [][Next]_vars

\* ------------------------------------------------------- properties
Idx == 1..Len(calls)

RoleOrder == << "camera", "vehicle", "manager", "ground", "light" >>

StepOrder == RoleOrder \o << "bindings", "sources", "readme" >>

ArtifactSteps == { "bindings", "sources", "readme" }

StepIndex(st) == CHOOSE k \in 1..Len(StepOrder) : StepOrder[k] = st

IsPrefix(a, b) == Len(a) <= Len(b) /\ \A i \in 1..Len(a) : a[i] = b[i]

Started(st) == \E j \in Idx : calls[j].step = st

NoRaise == \A i \in Idx : calls[i].out # "raise"

Registered(role) == \E i \in 1..Len(created_entities) : created_entities[i][1] = role

HandleOf(role) == created_entities[DictGet(created_entities, role)][2]

Called(op, step, arg, out) ==
    \E i \in Idx : calls[i].op = op /\ calls[i].step = step
                   /\ calls[i].arg = arg /\ calls[i].out = out

Args(log) == [ i \in 1..Len(log) |-> log[i].arg ]

Paths(log) == { log[i].arg : i \in { j \in 1..Len(log) : log[j].op = "write" } }

HeaderFile == "Gem/Code/Source/Components/VehicleCombatCameraComponent.h"
CppFile == "Gem/Code/Source/Components/VehicleCombatCameraComponent.cpp"
ReadmeFile == "CAMERA_SETUP_README.md"
BindingsFile == "Config/Input/vehicle_camera.inputbindings"

TypeOK ==
    /\ phase \in { "idle", "run", "returned", "crashed" }
    /\ pc \in 1..(ProgLen + 1)
    /\ result \in { "none", "True", "False" }
    /\ runNo \in 0..MaxRuns
    /\ Faults <= MaxFaults

\* C1 (as stated): when an artifact producer cannot write because its
\* directory is unwritable or cannot be created, no exception leaves the
\* producer and the other two producers are still invoked.
C1_ProducerFailureIsLocal ==
    (phase = "returned"
       /\ \E i \in Idx : calls[i].step \in ArtifactSteps
                         /\ calls[i].out \in { "raise", "openfail" })
    => /\ \A i \in Idx : calls[i].step \in ArtifactSteps => calls[i].out # "raise"
       /\ \A st \in ArtifactSteps : Started(st)

\* C2 (as stated): when create_entity fails for one role, every later role's
\* setup step and all three artifact producers still run.
C2_CreationFailureIsLocal ==
    phase = "returned" =>
      \A i \in Idx :
        (calls[i].op = "create" /\ calls[i].out # "ok") =>
          \A k \in 1..Len(StepOrder) :
            k > StepIndex(calls[i].step) => Started(StepOrder[k])

\* C3 (as stated): an invocation of main never ends with an exception; it
\* returns a boolean.
C3_MainNeverRaises == phase # "crashed"

\* C4: run_full_setup returns True exactly when no exception was raised in
\* its try block, whatever components were not found, properties rejected
\* or producers returned False.
C4_AggregateTrueUnlessException ==
    phase = "returned" => (result = "True" <=> NoRaise)

C4_Witness ==
    /\ phase = "returned"
    /\ result = "True"
    /\ \E i \in Idx : calls[i].out \in { "notfound", "rejected" }
    /\ \E st \in ArtifactSteps : ProducerFailed(calls, st)

\* C5: a component type that is not found makes add_component return None
\* and nothing more: the next statement of the method runs next, every
\* other component, transform and entity is still processed, and the
\* vehicle without "PhysX Rigid Body" still gets Mesh, PhysX Collider and
\* its world transform.
C5_NotFoundIsIndependent ==
    /\ \A i \in Idx :
         (calls[i].op = "add" /\ calls[i].out = "notfound") =>
           /\ i < Len(calls) =>
                /\ calls[i + 1].op # "set"
                /\ calls[i + 1].at > calls[i].at
                /\ \A p \in (calls[i].at + 1)..(calls[i + 1].at - 1) : Program[p].op = "set"
           /\ i = Len(calls) => phase = "run"
    /\ (phase = "returned" /\ NoRaise) =>
         /\ \A p \in 1..ProgLen :
              Program[p].op \in { "create", "add", "tm" } => \E i \in Idx : calls[i].at = p
         /\ \A i \in Idx :
              /\ (calls[i].op = "add" /\ calls[i].out = "ok") =>
                    << HandleOf(calls[i].step), calls[i].arg >> \in components
              /\ (calls[i].op = "tm" /\ HandleOf(calls[i].step) # InvalidEntityId) =>
                    << HandleOf(calls[i].step), calls[i].arg >> \in transforms
    /\ ( /\ Called("add", "vehicle", "PhysX Rigid Body", "notfound")
         /\ Called("tm", "vehicle", "SetWorldTM", "ok")
         /\ HandleOf("vehicle") # InvalidEntityId ) =>
         /\ Called("add", "vehicle", "Mesh", "ok")
              => << HandleOf("vehicle"), "Mesh" >> \in components
         /\ \E i \in Idx : calls[i].step = "vehicle" /\ calls[i].arg = "PhysX Collider"
         /\ Called("add", "vehicle", "PhysX Collider", "ok")
              => << HandleOf("vehicle"), "PhysX Collider" >> \in components
         /\ << HandleOf("vehicle"), "SetWorldTM" >> \in transforms

C5_Witness ==
    /\ phase = "returned"
    /\ Called("add", "vehicle", "PhysX Rigid Body", "notfound")
    /\ Registered("vehicle")
    /\ << HandleOf("vehicle"), "Mesh" >> \in components
    /\ << HandleOf("vehicle"), "PhysX Collider" >> \in components
    /\ << HandleOf("vehicle"), "SetWorldTM" >> \in transforms
    /\ Registered("light")

DeclaredProperties(comp) ==
    IF comp = "Camera"
    THEN << "Field of View", "Near Clip Distance", "Far Clip Distance" >>
    ELSE << "Initial linear velocity", "Mass" >>

SetCalls(comp) == SelectSeq(calls, LAMBDA e : e.op = "set" /\ e.comp = comp)

\* the component was attached and the method has gone past its property calls
PropertiesDone(comp) ==
    \E i \in Idx :
       /\ calls[i].op = "add" /\ calls[i].arg = comp /\ calls[i].out = "ok"
       /\ \E j \in Idx : j > i /\ calls[j].op # "set"

\* C6: for Camera (3 properties) and PhysX Rigid Body (2), once the component
\* is attached all declared set_component_property calls are made, in
\* declaration order, whether or not earlier ones were rejected; the number
\* of successful ones is at most the number declared.
C6_AllPropertiesAttempted ==
    \A comp \in { "Camera", "PhysX Rigid Body" } :
       /\ IsPrefix(Args(SetCalls(comp)), DeclaredProperties(comp))
       /\ PropertiesDone(comp) => Args(SetCalls(comp)) = DeclaredProperties(comp)
       /\ Cardinality({ i \in 1..Len(SetCalls(comp)) : SetCalls(comp)[i].out = "ok" })
            <= Len(DeclaredProperties(comp))

C6_Witness ==
    /\ Len(SetCalls("Camera")) = 3
    /\ SetCalls("Camera")[1].out = "rejected"
    /\ SetCalls("Camera")[3].out = "ok"
    /\ Len(SetCalls("PhysX Rigid Body")) = 2
    /\ SetCalls("PhysX Rigid Body")[1].out = "rejected"

HostOps == { "create", "add", "set", "tm" }

HostFunctional ==
    /\ behaviour[CtorSite] = "ok"
    /\ \A i \in Idx : calls[i].op \in HostOps => calls[i].out = "ok"

DisplayName(role) ==
    CASE role = "camera" -> "VehicleCamera"
      [] role = "vehicle" -> "PlayerVehicle"
      [] role = "manager" -> "GameManager"
      [] role = "ground" -> "GroundPlane"
      [] OTHER -> "DirectionalLight"

TransformsOf(role) ==
    CASE role \in { "camera", "vehicle" } -> { "SetWorldTM" }
      [] role \in { "ground", "light" } -> { "SetLocalTM" }
      [] OTHER -> {}

FiveRolesBuilt ==
    /\ DictKeys(created_entities) = RoleOrder
    /\ \A k \in 1..5 :
         LET role == RoleOrder[k]  h == created_entities[k][2] IN
         /\ h \in 1..Len(entities)
         /\ entities[h] = DisplayName(role)
         /\ \A m \in 1..5 : m # k => created_entities[m][2] # h
         /\ Cardinality({ i \in Idx : calls[i].op = "create" /\ calls[i].step = role }) = 1
         /\ Called("create", role, DisplayName(role), "ok")
         /\ { kind \in { "SetWorldTM", "SetLocalTM" } : << h, kind >> \in transforms }
              = TransformsOf(role)

\* C7 (as stated): after a run against a fully functional host the five
\* roles are registered, one entity each, correctly named, with the declared
\* transform kind, and the aggregate result is true.
C7_FunctionalHostRun ==
    (phase = "returned" /\ HostFunctional) => (FiveRolesBuilt /\ result = "True")

\* C8: a second run against the same host behaviour and file system
\* attempts the same artifact paths, returns the same aggregate value and
\* leaves every file with the content it had after the first run.
C8_RerunIsIdempotent ==
    (prev.valid /\ phase \in { "returned", "crashed" }) =>
       /\ result = prev.result
       /\ Paths(calls) = Paths(prev.calls)
       /\ fs = prev.fs

C8_Witness ==
    /\ prev.valid
    /\ phase = "returned"
    /\ result = "True"
    /\ Paths(calls) = Files
    /\ \A f \in Files : fs[f] = [exists |-> TRUE, data |-> Content(f)]

WrittenOk(f) == \E i \in Idx : calls[i].op = "write" /\ calls[i].arg = f /\ calls[i].out = "ok"

NoUndo ==
    /\ IsPrefix(entities, entities')
    /\ components \subseteq components'
    /\ properties \subseteq properties'
    /\ transforms \subseteq transforms'
    /\ dirs \subseteq dirs'
    /\ runNo' = runNo =>
         /\ IsPrefix(created_entities, created_entities')
         /\ \A f \in Files : WrittenOk(f) => (fs'[f] = fs[f] /\ fs[f].data = Content(f))

\* C9: no step of a run undoes an earlier one: entities created stay in the
\* host and in created_entities, files written keep their content, also the
\* header when the .cpp write of the same producer fails.
C9_NoRollback == [][NoUndo]_vars

C9_Witness ==
    /\ phase = "returned"
    /\ \E i \in Idx : calls[i].arg = CppFile /\ calls[i].out # "ok"
    /\ ProducerFailed(calls, "sources")
    /\ WrittenOk(HeaderFile)
    /\ fs[HeaderFile] = [exists |-> TRUE, data |-> Content(HeaderFile)]
    /\ Len(entities) >= 5

OpRank(op) == CASE op = "create" -> 1 [] op \in { "add", "set" } -> 2 [] OTHER -> 3

\* C10: the steps start in the fixed order camera, vehicle, manager, ground,
\* light, bindings, sources, readme, each at most once; inside an entity
\* step the entity is created and registered first, components and
\* properties follow, the transform comes last.  The registered roles are a
\* prefix of the role order, and producers start only after all five.
C10_FixedOrder ==
    /\ \A i \in Idx :
         LET k == StepIndex(calls[i].step) IN
         IF i = 1 THEN k = 1
         ELSE k \in { StepIndex(calls[i - 1].step), StepIndex(calls[i - 1].step) + 1 }
    /\ \A i \in Idx :
         (i > 1 /\ calls[i].step \in Roles) =>
            IF calls[i - 1].step = calls[i].step
            THEN /\ OpRank(calls[i - 1].op) <= OpRank(calls[i].op)
                 /\ calls[i].op # "create"
                 /\ calls[i - 1].op # "tm"
            ELSE calls[i].op = "create"
    /\ \A i \in Idx : calls[i].at # 0 /\ (i > 1 => calls[i - 1].at < calls[i].at)
    /\ \A role \in Roles :
         Registered(role) <=>
           \E i \in Idx : calls[i].op = "create" /\ calls[i].step = role
                          /\ calls[i].out \in { "ok", "invalid" }
    /\ IsPrefix(DictKeys(created_entities), RoleOrder)
    /\ (\E st \in ArtifactSteps : Started(st)) => DictKeys(created_entities) = RoleOrder

C10_Witness ==
    /\ phase = "returned"
    /\ result = "True"
    /\ Len(calls) = ProgLen
    /\ DictKeys(created_entities) = RoleOrder

====
